---- MODULE Spec2Model ----
(***************************************************************************)
(* Model of multi_mut (src/src/lib.rs): extension methods on HashMap and   *)
(* BTreeMap that hand out several mutable references into one map, with a  *)
(* runtime check that no two of them point to the same value slot.         *)
(*                                                                         *)
(* A container is a function from stored keys to value slots (addresses);  *)
(* the values live in mem, indexed by address.  A reference is an address. *)
(***************************************************************************)
EXTENDS Integers, Sequences, FiniteSets, TLC

\* ------------------------------------------------------------------------
\* Bounds of the model
\* ------------------------------------------------------------------------
MaxCap == 3        \* longest scratch buffer a caller supplies
MaxKeys == 3       \* longest key list handed to iter_multi_mut

\* ------------------------------------------------------------------------
\* Keys, queries, addresses, values
\* ------------------------------------------------------------------------
\* The keys a map may store (type K).
StoredKeys == {"a", "b", "c"}

\* The borrowed query representations (type Q).  "A" is a second
\* representation that compares equal to the stored key "a" (K: Borrow<Q>,
\* Q: Eq).  A key is absent when the map at hand does not store it.
Queries == {"a", "A", "b", "c"}

\* Q's equality between a stored key (borrowed) and a query.
KeyEq(s, q) == (s = q) \/ (s = "a" /\ q = "A")

\* std::ptr::null_mut(), the value the callers fill a fresh buffer with.
Null == 0

\* Addresses of value slots.
Addr == {1, 2, 3}

\* The two backends.
Backends == {"hash", "btree"}

\* Where a backend keeps the value of each key: the hash table scatters
\* the keys, the ordered tree keeps them in key order.  Injective.
Slots(b) ==
    IF b = "hash" THEN ("a" :> 2) @@ ("b" :> 3) @@ ("c" :> 1)
    ELSE ("a" :> 1) @@ ("b" :> 2) @@ ("c" :> 3)

\* The payloads.
Values == {0, 1}

\* ------------------------------------------------------------------------
\* Outcomes of a call
\* ------------------------------------------------------------------------
\* Option::None.
None == [kind |-> "none", refs |-> <<>>, msg |-> ""]

\* Option::Some / a plain tuple of references (addresses, in order).
Some(ptrs) == [kind |-> "some", refs |-> ptrs, msg |-> ""]

\* panic!(msg).
Panic(m) == [kind |-> "panic", refs |-> <<>>, msg |-> m]

\* A constructor's result (the wrapper or iterator itself).
Unit == [kind |-> "unit", refs |-> <<>>, msg |-> ""]

MsgNoEntry == "no entry found for key"
MsgOverlap == "The keys pointed to the same value! Only non-overlapping values can be handled."
MsgDepleted == "Buffer space is depleted!"
MsgAliased == "No aliased references allowed! This key has been already used."
MsgNoKey == "No such key!"

\* ------------------------------------------------------------------------
\* The container's lookup
\* ------------------------------------------------------------------------
\* map.get(k): the slot of the stored key equal to k, if any.
get(m, k) ==
    IF \E s \in DOMAIN m : KeyEq(s, k)
    THEN [some |-> TRUE, ptr |-> m[CHOOSE s \in DOMAIN m : KeyEq(s, k)]]
    ELSE [some |-> FALSE, ptr |-> Null]

\* ------------------------------------------------------------------------
\* HashMap backend
\* ------------------------------------------------------------------------
\* Faulty variant: the references are returned in the wrong order.
Swapped_get_pair_mut(m, k_1, k_2) ==
    LET v_1 == get(m, k_1)
        v_2 == get(m, k_2)
    IN  IF v_1.some /\ v_2.some
        THEN IF v_1.ptr = v_2.ptr THEN None ELSE Some(<<v_2.ptr, v_1.ptr>>)
        ELSE None

HashMap_get_pair_mut(m, k_1, k_2) ==
    LET v_1 == get(m, k_1)
        v_2 == get(m, k_2)
    IN  IF v_1.some /\ v_2.some
        THEN LET ptr_1 == v_1.ptr
                 ptr_2 == v_2.ptr
             IN  IF ptr_1 = ptr_2 THEN None ELSE Some(<<ptr_1, ptr_2>>)
        ELSE None

\* Faulty variant: the overlap check is missing.
Unchecked_pair_mut(m, k_1, k_2) ==
    IF ~get(m, k_1).some THEN Panic(MsgNoEntry)
    ELSE IF ~get(m, k_2).some THEN Panic(MsgNoEntry)
    ELSE Some(<<get(m, k_1).ptr, get(m, k_2).ptr>>)

\* Faulty variant: the keys are compared instead of the pointers.
SameKeyOnly_pair_mut(m, k_1, k_2) ==
    IF ~get(m, k_1).some THEN Panic(MsgNoEntry)
    ELSE IF ~get(m, k_2).some THEN Panic(MsgNoEntry)
    ELSE IF k_1 = k_2 THEN Panic(MsgOverlap)
    ELSE Some(<<get(m, k_1).ptr, get(m, k_2).ptr>>)

HashMap_pair_mut(m, k_1, k_2) ==
    IF ~get(m, k_1).some THEN Panic(MsgNoEntry)
    ELSE IF ~get(m, k_2).some THEN Panic(MsgNoEntry)
    ELSE LET ptr_1 == get(m, k_1).ptr
             ptr_2 == get(m, k_2).ptr
         IN  IF ptr_1 = ptr_2 THEN Panic(MsgOverlap) ELSE Some(<<ptr_1, ptr_2>>)

\* Faulty variant: the first and the third pointer are not compared.
TwoChecks_get_triple_mut(m, k_1, k_2, k_3) ==
    LET v_1 == get(m, k_1)
        v_2 == get(m, k_2)
        v_3 == get(m, k_3)
    IN  IF v_1.some /\ v_2.some /\ v_3.some
        THEN IF v_1.ptr = v_2.ptr \/ v_2.ptr = v_3.ptr
             THEN None
             ELSE Some(<<v_1.ptr, v_2.ptr, v_3.ptr>>)
        ELSE None

\* Faulty variant: the first and the second pointer are not compared.
NoCheck12_get_triple_mut(m, k_1, k_2, k_3) ==
    LET v_1 == get(m, k_1)
        v_2 == get(m, k_2)
        v_3 == get(m, k_3)
    IN  IF v_1.some /\ v_2.some /\ v_3.some
        THEN IF v_2.ptr = v_3.ptr \/ v_1.ptr = v_3.ptr
             THEN None
             ELSE Some(<<v_1.ptr, v_2.ptr, v_3.ptr>>)
        ELSE None

HashMap_get_triple_mut(m, k_1, k_2, k_3) ==
    LET v_1 == get(m, k_1)
        v_2 == get(m, k_2)
        v_3 == get(m, k_3)
    IN  IF v_1.some /\ v_2.some /\ v_3.some
        THEN LET ptr_1 == v_1.ptr
                 ptr_2 == v_2.ptr
                 ptr_3 == v_3.ptr
             IN  IF ptr_1 = ptr_2 \/ ptr_2 = ptr_3 \/ ptr_1 = ptr_3
                 THEN None
                 ELSE Some(<<ptr_1, ptr_2, ptr_3>>)
        ELSE None

HashMap_triple_mut(m, k_1, k_2, k_3) ==
    IF ~get(m, k_1).some THEN Panic(MsgNoEntry)
    ELSE IF ~get(m, k_2).some THEN Panic(MsgNoEntry)
    ELSE IF ~get(m, k_3).some THEN Panic(MsgNoEntry)
    ELSE LET ptr_1 == get(m, k_1).ptr
             ptr_2 == get(m, k_2).ptr
             ptr_3 == get(m, k_3).ptr
         IN  IF ptr_1 = ptr_2 \/ ptr_2 = ptr_3 \/ ptr_1 = ptr_3
             THEN Panic(MsgOverlap)
             ELSE Some(<<ptr_1, ptr_2, ptr_3>>)

\* The wrapper built over the map and the caller's buffer.
HashMap_multi_mut(m, buf) == [used |-> 0, map |-> m, buffer |-> buf]

\* The wrapper's get_mut gives the outcome and the wrapper afterwards.

\* Faulty variant: the scan of the claimed pointers is missing.
NoScan_get_mut(self, k) ==
    IF self.used = Len(self.buffer)
    THEN [out |-> Panic(MsgDepleted), self |-> self]
    ELSE LET v == get(self.map, k)
         IN  IF ~v.some
             THEN [out |-> None, self |-> self]
             ELSE [out  |-> Some(<<v.ptr>>),
                   self |-> [self EXCEPT !.buffer[self.used + 1] = v.ptr,
                                         !.used = self.used + 1]]

\* Faulty variant: the buffer counts as depleted one slot early.
EarlyDepleted_get_mut(self, k) ==
    IF self.used + 1 >= Len(self.buffer)
    THEN [out |-> Panic(MsgDepleted), self |-> self]
    ELSE LET v == get(self.map, k)
         IN  IF ~v.some
             THEN [out |-> None, self |-> self]
             ELSE IF \E i \in 1..self.used : v.ptr = self.buffer[i]
                  THEN [out |-> Panic(MsgAliased), self |-> self]
                  ELSE [out  |-> Some(<<v.ptr>>),
                        self |-> [self EXCEPT !.buffer[self.used + 1] = v.ptr,
                                              !.used = self.used + 1]]

\* Faulty variant: the key is looked up before the capacity is checked.
LookupFirst_get_mut(self, k) ==
    LET v == get(self.map, k)
    IN  IF ~v.some
        THEN [out |-> None, self |-> self]
        ELSE IF self.used = Len(self.buffer)
             THEN [out |-> Panic(MsgDepleted), self |-> self]
             ELSE IF \E i \in 1..self.used : v.ptr = self.buffer[i]
                  THEN [out |-> Panic(MsgAliased), self |-> self]
                  ELSE [out  |-> Some(<<v.ptr>>),
                        self |-> [self EXCEPT !.buffer[self.used + 1] = v.ptr,
                                              !.used = self.used + 1]]

\* Faulty variant: the capacity check compares with > instead of ==, so a
\* full buffer is noticed only by the store into it.
GreaterThan_get_mut(self, k) ==
    IF self.used > Len(self.buffer)
    THEN [out |-> Panic(MsgDepleted), self |-> self]
    ELSE LET v == get(self.map, k)
         IN  IF ~v.some
             THEN [out |-> None, self |-> self]
             ELSE IF \E i \in 1..self.used : v.ptr = self.buffer[i]
                  THEN [out |-> Panic(MsgAliased), self |-> self]
                  ELSE IF self.used + 1 > Len(self.buffer)
                       THEN [out |-> Panic("index out of bounds"), self |-> self]
                       ELSE [out  |-> Some(<<v.ptr>>),
                             self |-> [self EXCEPT !.buffer[self.used + 1] = v.ptr,
                                                   !.used = self.used + 1]]

\* Faulty variant: a claim of an absent key uses up a slot of the buffer.
CountAbsent_get_mut(self, k) ==
    IF self.used = Len(self.buffer)
    THEN [out |-> Panic(MsgDepleted), self |-> self]
    ELSE LET v == get(self.map, k)
         IN  IF ~v.some
             THEN [out |-> None, self |-> [self EXCEPT !.used = self.used + 1]]
             ELSE IF \E i \in 1..self.used : v.ptr = self.buffer[i]
                  THEN [out |-> Panic(MsgAliased), self |-> self]
                  ELSE [out  |-> Some(<<v.ptr>>),
                        self |-> [self EXCEPT !.buffer[self.used + 1] = v.ptr,
                                              !.used = self.used + 1]]

\* Faulty variant: once the buffer holds two entries, a new pointer
\* replaces the first of them and the second moves out of the prefix.
Overwriting_get_mut(self, k) ==
    IF self.used = Len(self.buffer)
    THEN [out |-> Panic(MsgDepleted), self |-> self]
    ELSE LET v == get(self.map, k)
         IN  IF ~v.some
             THEN [out |-> None, self |-> self]
             ELSE IF \E i \in 1..self.used : v.ptr = self.buffer[i]
                  THEN [out |-> Panic(MsgAliased), self |-> self]
                  ELSE IF self.used >= 2
                       THEN [out  |-> Some(<<v.ptr>>),
                             self |-> [self EXCEPT !.buffer[1] = v.ptr,
                                                   !.used = 1]]
                       ELSE [out  |-> Some(<<v.ptr>>),
                             self |-> [self EXCEPT !.buffer[self.used + 1] = v.ptr,
                                                   !.used = self.used + 1]]

HashMapMutWrapper_get_mut(self, k) ==
    IF self.used = Len(self.buffer)
    THEN [out |-> Panic(MsgDepleted), self |-> self]
    ELSE LET v == get(self.map, k)
         IN  IF ~v.some
             THEN [out |-> None, self |-> self]
             ELSE LET ptr == v.ptr
                  IN  IF \E i \in 1..self.used : ptr = self.buffer[i]
                      THEN [out |-> Panic(MsgAliased), self |-> self]
                      ELSE [out  |-> Some(<<ptr>>),
                            self |-> [self EXCEPT !.buffer[self.used + 1] = ptr,
                                                  !.used = self.used + 1]]

\* Faulty variant: an absent key is not escalated to a panic.
SoftHash_mut_ref(self, k) == HashMapMutWrapper_get_mut(self, k)

HashMapMutWrapper_mut_ref(self, k) ==
    LET r == HashMapMutWrapper_get_mut(self, k)
    IN  IF r.out.kind = "none"
        THEN [out |-> Panic(MsgNoKey), self |-> r.self]
        ELSE r

\* The iterator built over the wrapper and the key slice.
HashMap_iter_multi_mut(m, ks, buf) ==
    [mut_wrapper |-> HashMap_multi_mut(m, buf), keys |-> ks]

\* Faulty variant: the capacity is not checked before the next key is taken.
NoCapCheck_next(self) ==
    IF self.keys = <<>>
    THEN [out |-> None, self |-> self]
    ELSE LET r == HashMapMutWrapper_mut_ref(self.mut_wrapper, Head(self.keys))
         IN  [out  |-> r.out,
              self |-> [mut_wrapper |-> r.self, keys |-> Tail(self.keys)]]

\* Faulty variant: the pointer of the next key is handed out without going
\* through the wrapper's scan of the claimed pointers.
Unchecked_next(self) ==
    IF self.mut_wrapper.used = Len(self.mut_wrapper.buffer)
    THEN [out |-> None, self |-> self]
    ELSE IF self.keys = <<>>
         THEN [out |-> None, self |-> self]
         ELSE LET v == get(self.mut_wrapper.map, Head(self.keys))
                  w == self.mut_wrapper
              IN  IF ~v.some
                  THEN [out  |-> Panic(MsgNoKey),
                        self |-> [self EXCEPT !.keys = Tail(self.keys)]]
                  ELSE [out  |-> Some(<<v.ptr>>),
                        self |-> [mut_wrapper |->
                                      [w EXCEPT !.buffer[w.used + 1] = v.ptr,
                                                !.used = w.used + 1],
                                  keys |-> Tail(self.keys)]]

\* Faulty variant: the non-panicking get_mut is used, so an absent key
\* reads as the end of the sequence.
Soft_next(self) ==
    IF self.mut_wrapper.used = Len(self.mut_wrapper.buffer)
    THEN [out |-> None, self |-> self]
    ELSE IF self.keys = <<>>
         THEN [out |-> None, self |-> self]
         ELSE LET r == HashMapMutWrapper_get_mut(self.mut_wrapper, Head(self.keys))
              IN  [out  |-> r.out,
                   self |-> [mut_wrapper |-> r.self, keys |-> Tail(self.keys)]]

HashMapMultiMutIter_next(self) ==
    IF self.mut_wrapper.used = Len(self.mut_wrapper.buffer)
    THEN [out |-> None, self |-> self]
    ELSE IF self.keys = <<>>
         THEN [out |-> None, self |-> self]
         ELSE LET r == HashMapMutWrapper_mut_ref(self.mut_wrapper, Head(self.keys))
              IN  [out  |-> r.out,
                   self |-> [mut_wrapper |-> r.self, keys |-> Tail(self.keys)]]

\* ------------------------------------------------------------------------
\* BTreeMap backend
\* ------------------------------------------------------------------------
\* Faulty variant: the overlap check is missing.
Unchecked_get_pair_mut(m, k_1, k_2) ==
    LET v_1 == get(m, k_1)
        v_2 == get(m, k_2)
    IN  IF v_1.some /\ v_2.some
        THEN Some(<<v_1.ptr, v_2.ptr>>)
        ELSE None

BTreeMap_get_pair_mut(m, k_1, k_2) ==
    LET v_1 == get(m, k_1)
        v_2 == get(m, k_2)
    IN  IF v_1.some /\ v_2.some
        THEN LET ptr_1 == v_1.ptr
                 ptr_2 == v_2.ptr
             IN  IF ptr_1 = ptr_2 THEN None ELSE Some(<<ptr_1, ptr_2>>)
        ELSE None

BTreeMap_pair_mut(m, k_1, k_2) ==
    IF ~get(m, k_1).some THEN Panic(MsgNoEntry)
    ELSE IF ~get(m, k_2).some THEN Panic(MsgNoEntry)
    ELSE LET ptr_1 == get(m, k_1).ptr
             ptr_2 == get(m, k_2).ptr
         IN  IF ptr_1 = ptr_2 THEN Panic(MsgOverlap) ELSE Some(<<ptr_1, ptr_2>>)

\* Faulty variant: an absent third key is ignored and the first two
\* references are returned.
Partial_get_triple_mut(m, k_1, k_2, k_3) ==
    LET v_1 == get(m, k_1)
        v_2 == get(m, k_2)
        v_3 == get(m, k_3)
    IN  IF v_1.some /\ v_2.some
        THEN IF ~v_3.some
             THEN IF v_1.ptr = v_2.ptr THEN None ELSE Some(<<v_1.ptr, v_2.ptr>>)
             ELSE IF v_1.ptr = v_2.ptr \/ v_2.ptr = v_3.ptr \/ v_1.ptr = v_3.ptr
                  THEN None
                  ELSE Some(<<v_1.ptr, v_2.ptr, v_3.ptr>>)
        ELSE None

\* Faulty variant: the second and the third pointer are not compared.
NoCheck23_get_triple_mut(m, k_1, k_2, k_3) ==
    LET v_1 == get(m, k_1)
        v_2 == get(m, k_2)
        v_3 == get(m, k_3)
    IN  IF v_1.some /\ v_2.some /\ v_3.some
        THEN IF v_1.ptr = v_2.ptr \/ v_1.ptr = v_3.ptr
             THEN None
             ELSE Some(<<v_1.ptr, v_2.ptr, v_3.ptr>>)
        ELSE None

BTreeMap_get_triple_mut(m, k_1, k_2, k_3) ==
    LET v_1 == get(m, k_1)
        v_2 == get(m, k_2)
        v_3 == get(m, k_3)
    IN  IF v_1.some /\ v_2.some /\ v_3.some
        THEN LET ptr_1 == v_1.ptr
                 ptr_2 == v_2.ptr
                 ptr_3 == v_3.ptr
             IN  IF ptr_1 = ptr_2 \/ ptr_2 = ptr_3 \/ ptr_1 = ptr_3
                 THEN None
                 ELSE Some(<<ptr_1, ptr_2, ptr_3>>)
        ELSE None

\* Faulty variant: the first and the third pointer are not compared.
NoCheck13_triple_mut(m, k_1, k_2, k_3) ==
    IF ~get(m, k_1).some THEN Panic(MsgNoEntry)
    ELSE IF ~get(m, k_2).some THEN Panic(MsgNoEntry)
    ELSE IF ~get(m, k_3).some THEN Panic(MsgNoEntry)
    ELSE LET ptr_1 == get(m, k_1).ptr
             ptr_2 == get(m, k_2).ptr
             ptr_3 == get(m, k_3).ptr
         IN  IF ptr_1 = ptr_2 \/ ptr_2 = ptr_3
             THEN Panic(MsgOverlap)
             ELSE Some(<<ptr_1, ptr_2, ptr_3>>)

BTreeMap_triple_mut(m, k_1, k_2, k_3) ==
    IF ~get(m, k_1).some THEN Panic(MsgNoEntry)
    ELSE IF ~get(m, k_2).some THEN Panic(MsgNoEntry)
    ELSE IF ~get(m, k_3).some THEN Panic(MsgNoEntry)
    ELSE LET ptr_1 == get(m, k_1).ptr
             ptr_2 == get(m, k_2).ptr
             ptr_3 == get(m, k_3).ptr
         IN  IF ptr_1 = ptr_2 \/ ptr_2 = ptr_3 \/ ptr_1 = ptr_3
             THEN Panic(MsgOverlap)
             ELSE Some(<<ptr_1, ptr_2, ptr_3>>)

\* The wrapper built over the map and the caller's buffer.
BTreeMap_multi_mut(m, buf) == [used |-> 0, map |-> m, buffer |-> buf]

\* The wrapper's get_mut: the outcome and the wrapper afterwards.
\* Faulty variant: the scan stops one entry short of the filled prefix.
ShortScan_get_mut(self, k) ==
    IF self.used = Len(self.buffer)
    THEN [out |-> Panic(MsgDepleted), self |-> self]
    ELSE LET v == get(self.map, k)
         IN  IF ~v.some
             THEN [out |-> None, self |-> self]
             ELSE IF \E i \in 1..(self.used - 1) : v.ptr = self.buffer[i]
                  THEN [out |-> Panic(MsgAliased), self |-> self]
                  ELSE [out  |-> Some(<<v.ptr>>),
                        self |-> [self EXCEPT !.buffer[self.used + 1] = v.ptr,
                                              !.used = self.used + 1]]

\* Faulty variant: the scan skips the first entry of the filled prefix.
LateScan_get_mut(self, k) ==
    IF self.used = Len(self.buffer)
    THEN [out |-> Panic(MsgDepleted), self |-> self]
    ELSE LET v == get(self.map, k)
         IN  IF ~v.some
             THEN [out |-> None, self |-> self]
             ELSE IF \E i \in 2..self.used : v.ptr = self.buffer[i]
                  THEN [out |-> Panic(MsgAliased), self |-> self]
                  ELSE [out  |-> Some(<<v.ptr>>),
                        self |-> [self EXCEPT !.buffer[self.used + 1] = v.ptr,
                                              !.used = self.used + 1]]

\* Faulty variant: the pointer is always stored in the first slot.
FirstSlot_get_mut(self, k) ==
    IF self.used = Len(self.buffer)
    THEN [out |-> Panic(MsgDepleted), self |-> self]
    ELSE LET v == get(self.map, k)
         IN  IF ~v.some
             THEN [out |-> None, self |-> self]
             ELSE IF \E i \in 1..self.used : v.ptr = self.buffer[i]
                  THEN [out |-> Panic(MsgAliased), self |-> self]
                  ELSE [out  |-> Some(<<v.ptr>>),
                        self |-> [self EXCEPT !.buffer[1] = v.ptr,
                                              !.used = self.used + 1]]

\* Faulty variant: the scan covers the whole buffer, not only the filled
\* prefix.
FullScan_get_mut(self, k) ==
    IF self.used = Len(self.buffer)
    THEN [out |-> Panic(MsgDepleted), self |-> self]
    ELSE LET v == get(self.map, k)
         IN  IF ~v.some
             THEN [out |-> None, self |-> self]
             ELSE IF \E i \in 1..Len(self.buffer) : v.ptr = self.buffer[i]
                  THEN [out |-> Panic(MsgAliased), self |-> self]
                  ELSE [out  |-> Some(<<v.ptr>>),
                        self |-> [self EXCEPT !.buffer[self.used + 1] = v.ptr,
                                              !.used = self.used + 1]]

BTreeMapMutWrapper_get_mut(self, k) ==
    IF self.used = Len(self.buffer)
    THEN [out |-> Panic(MsgDepleted), self |-> self]
    ELSE LET v == get(self.map, k)
         IN  IF ~v.some
             THEN [out |-> None, self |-> self]
             ELSE LET ptr == v.ptr
                  IN  IF \E i \in 1..self.used : ptr = self.buffer[i]
                      THEN [out |-> Panic(MsgAliased), self |-> self]
                      ELSE [out  |-> Some(<<ptr>>),
                            self |-> [self EXCEPT !.buffer[self.used + 1] = ptr,
                                                  !.used = self.used + 1]]

\* Faulty variant: an absent key is not escalated to a panic.
SoftBTree_mut_ref(self, k) == BTreeMapMutWrapper_get_mut(self, k)

BTreeMapMutWrapper_mut_ref(self, k) ==
    LET r == BTreeMapMutWrapper_get_mut(self, k)
    IN  IF r.out.kind = "none"
        THEN [out |-> Panic(MsgNoKey), self |-> r.self]
        ELSE r

\* Faulty variant: the iterator is built over a map emptied of its entries.
Emptying_iter_multi_mut(m, ks, buf) ==
    [mut_wrapper |-> BTreeMap_multi_mut([s \in {} |-> Null], buf), keys |-> ks]

\* The iterator built over the wrapper and the key slice.
BTreeMap_iter_multi_mut(m, ks, buf) ==
    [mut_wrapper |-> BTreeMap_multi_mut(m, buf), keys |-> ks]

\* Faulty variant: the keys are taken from the back of the slice.
Reverse_next(self) ==
    IF self.mut_wrapper.used = Len(self.mut_wrapper.buffer)
    THEN [out |-> None, self |-> self]
    ELSE IF self.keys = <<>>
         THEN [out |-> None, self |-> self]
         ELSE LET n == Len(self.keys)
                  r == BTreeMapMutWrapper_mut_ref(self.mut_wrapper, self.keys[n])
              IN  [out  |-> r.out,
                   self |-> [mut_wrapper |-> r.self,
                             keys |-> SubSeq(self.keys, 1, n - 1)]]

\* Faulty variant: a pull takes two keys from the slice and claims the
\* second of them.
Skip_next(self) ==
    IF self.mut_wrapper.used = Len(self.mut_wrapper.buffer)
    THEN [out |-> None, self |-> self]
    ELSE IF self.keys = <<>>
         THEN [out |-> None, self |-> self]
         ELSE IF Len(self.keys) = 1
              THEN LET r == BTreeMapMutWrapper_mut_ref(self.mut_wrapper, self.keys[1])
                   IN  [out  |-> r.out,
                        self |-> [mut_wrapper |-> r.self, keys |-> <<>>]]
              ELSE LET r == BTreeMapMutWrapper_mut_ref(self.mut_wrapper, self.keys[2])
                   IN  [out  |-> r.out,
                        self |-> [mut_wrapper |-> r.self,
                                  keys |-> Tail(Tail(self.keys))]]

BTreeMapMultiMutIter_next(self) ==
    IF self.mut_wrapper.used = Len(self.mut_wrapper.buffer)
    THEN [out |-> None, self |-> self]
    ELSE IF self.keys = <<>>
         THEN [out |-> None, self |-> self]
         ELSE LET r == BTreeMapMutWrapper_mut_ref(self.mut_wrapper, Head(self.keys))
              IN  [out  |-> r.out,
                   self |-> [mut_wrapper |-> r.self, keys |-> Tail(self.keys)]]

\* ------------------------------------------------------------------------
\* Method resolution: the receiver's type selects the implementation
\* ------------------------------------------------------------------------
get_pair_mut(b, m, k_1, k_2) ==
    IF b = "hash" THEN HashMap_get_pair_mut(m, k_1, k_2)
                  ELSE BTreeMap_get_pair_mut(m, k_1, k_2)

pair_mut(b, m, k_1, k_2) ==
    IF b = "hash" THEN HashMap_pair_mut(m, k_1, k_2)
                  ELSE BTreeMap_pair_mut(m, k_1, k_2)

get_triple_mut(b, m, k_1, k_2, k_3) ==
    IF b = "hash" THEN HashMap_get_triple_mut(m, k_1, k_2, k_3)
                  ELSE BTreeMap_get_triple_mut(m, k_1, k_2, k_3)

triple_mut(b, m, k_1, k_2, k_3) ==
    IF b = "hash" THEN HashMap_triple_mut(m, k_1, k_2, k_3)
                  ELSE BTreeMap_triple_mut(m, k_1, k_2, k_3)

iter_multi_mut(b, m, ks, buf) ==
    IF b = "hash" THEN HashMap_iter_multi_mut(m, ks, buf)
                  ELSE BTreeMap_iter_multi_mut(m, ks, buf)

multi_mut(b, m, buf) ==
    IF b = "hash" THEN HashMap_multi_mut(m, buf)
                  ELSE BTreeMap_multi_mut(m, buf)

get_mut(b, self, k) ==
    IF b = "hash" THEN HashMapMutWrapper_get_mut(self, k)
                  ELSE BTreeMapMutWrapper_get_mut(self, k)

mut_ref(b, self, k) ==
    IF b = "hash" THEN HashMapMutWrapper_mut_ref(self, k)
                  ELSE BTreeMapMutWrapper_mut_ref(self, k)

next(b, self) ==
    IF b = "hash" THEN HashMapMultiMutIter_next(self)
                  ELSE BTreeMapMultiMutIter_next(self)

\* ------------------------------------------------------------------------
\* State
\* ------------------------------------------------------------------------
VARIABLES
    backend,   \* "hash" or "btree": the type of the map
    map,       \* the container: stored key -> address of its value slot
    mem,       \* address -> value held there
    status,    \* "idle" | "fixed" | "multi" | "iter" | "panicked"
    used,      \* wrapper.used
    buffer,    \* wrapper.buffer, the caller's scratch buffer
    keys,      \* iterator.keys: the keys not yet consumed
    keylist,   \* the key slice the iterator was built over
    refs,      \* the references handed out in this session, in order:
               \* [ptr |-> address, key |-> the query it was obtained for]
    last       \* the last call: [op, args, out]

vars == <<backend, map, mem, status, used, buffer, keys, keylist, refs,
          last>>

\* The wrapper and the iterator as the code holds them.
Wrapper == [used |-> used, map |-> map, buffer |-> buffer]

Iterator == [mut_wrapper |-> Wrapper, keys |-> keys]

\* The references of an outcome, each with the key it was obtained for.
Issued(out, ks) == [i \in 1..Len(out.refs) |-> [ptr |-> out.refs[i], key |-> ks[i]]]

\* The buffers a caller may supply, [fill; n]: any length up to MaxCap,
\* filled with null or with a stale address.
Buffers ==
    {[i \in 1..n |-> fill] : n \in 0..MaxCap, fill \in {Null} \cup Addr}

\* The key slices a caller may supply.
KeyLists == UNION {[1..n -> Queries] : n \in 0..MaxKeys}

Init ==
    /\ backend \in Backends
    /\ \E present \in SUBSET StoredKeys :
           map = [s \in present |-> Slots(backend)[s]]
    /\ mem = [a \in Addr |-> 0]
    /\ status = "idle"
    /\ used = 0
    /\ buffer = <<>>
    /\ keys = <<>>
    /\ keylist = <<>>
    /\ refs = <<>>
    /\ last = [op |-> "new", args |-> <<>>, out |-> Unit]

\* ------------------------------------------------------------------------
\* Actions
\* ------------------------------------------------------------------------
\* A fixed-arity call on the idle map: the outcome is handed to the caller,
\* who holds the returned references until EndSession.
FixedCall(op, args, out) ==
    /\ last' = [op |-> op, args |-> args, out |-> out]
    /\ refs' = Issued(out, args)
    /\ status' = IF out.kind = "panic" THEN "panicked" ELSE "fixed"
    /\ UNCHANGED <<backend, map, mem, used, buffer, keys, keylist>>

GetPairMut ==
    /\ status = "idle"
    /\ \E k_1, k_2 \in Queries :
        FixedCall("get_pair_mut", <<k_1, k_2>>, get_pair_mut(backend, map, k_1, k_2))

PairMut ==
    /\ status = "idle"
    /\ \E k_1, k_2 \in Queries :
        FixedCall("pair_mut", <<k_1, k_2>>, pair_mut(backend, map, k_1, k_2))

GetTripleMut ==
    /\ status = "idle"
    /\ \E k_1, k_2, k_3 \in Queries :
        FixedCall("get_triple_mut", <<k_1, k_2, k_3>>,
                  get_triple_mut(backend, map, k_1, k_2, k_3))

TripleMut ==
    /\ status = "idle"
    /\ \E k_1, k_2, k_3 \in Queries :
        FixedCall("triple_mut", <<k_1, k_2, k_3>>,
                  triple_mut(backend, map, k_1, k_2, k_3))

\* map.multi_mut(&mut buffer)
MultiMut ==
    /\ status = "idle"
    /\ \E buf \in Buffers :
           LET w == multi_mut(backend, map, buf)
           IN  /\ used' = w.used
               /\ buffer' = w.buffer
               /\ map' = w.map
    /\ status' = "multi"
    /\ refs' = <<>>
    /\ last' = [op |-> "multi_mut", args |-> <<>>, out |-> Unit]
    /\ UNCHANGED <<backend, mem, keys, keylist>>

\* map.iter_multi_mut(&keys, &mut buffer)
IterMultiMut ==
    /\ status = "idle"
    /\ \E ks \in KeyLists, buf \in Buffers :
           LET it == iter_multi_mut(backend, map, ks, buf)
           IN  /\ used' = it.mut_wrapper.used
               /\ buffer' = it.mut_wrapper.buffer
               /\ map' = it.mut_wrapper.map
               /\ keys' = it.keys
               /\ keylist' = ks
    /\ status' = "iter"
    /\ refs' = <<>>
    /\ last' = [op |-> "iter_multi_mut", args |-> <<>>, out |-> Unit]
    /\ UNCHANGED <<backend, mem>>

\* A call on the wrapper: r is [out, self].
WrapperCall(op, k, r) ==
    /\ used' = r.self.used
    /\ buffer' = r.self.buffer
    /\ map' = r.self.map
    /\ last' = [op |-> op, args |-> <<k>>, out |-> r.out]
    /\ refs' = refs \o Issued(r.out, <<k>>)
    /\ status' = IF r.out.kind = "panic" THEN "panicked" ELSE status

\* wrapper.get_mut(k)
GetMut ==
    /\ status = "multi"
    /\ \E k \in Queries : WrapperCall("get_mut", k, get_mut(backend, Wrapper, k))
    /\ UNCHANGED <<backend, mem, keys, keylist>>

\* wrapper.mut_ref(k)
MutRef ==
    /\ status = "multi"
    /\ \E k \in Queries : WrapperCall("mut_ref", k, mut_ref(backend, Wrapper, k))
    /\ UNCHANGED <<backend, mem, keys, keylist>>

\* iterator.next()
IterNext ==
    /\ status = "iter"
    /\ LET r == next(backend, Iterator)
           k == IF keys = <<>> THEN <<>> ELSE <<Head(keys)>>
       IN  /\ used' = r.self.mut_wrapper.used
           /\ buffer' = r.self.mut_wrapper.buffer
           /\ map' = r.self.mut_wrapper.map
           /\ keys' = r.self.keys
           /\ last' = [op |-> "next", args |-> <<>>, out |-> r.out]
           /\ refs' = refs \o Issued(r.out, k)
           /\ status' = IF r.out.kind = "panic" THEN "panicked" ELSE status
    /\ UNCHANGED <<backend, mem, keylist>>

\* The caller writes v through the i-th reference it holds.
Write ==
    /\ status \in {"fixed", "multi", "iter"}
    /\ \E i \in 1..Len(refs), v \in Values :
           /\ mem' = [mem EXCEPT ![refs[i].ptr] = v]
           /\ last' = [op |-> "write", args |-> <<i, v>>, out |-> Unit]
    /\ UNCHANGED <<backend, map, status, used, buffer, keys, keylist, refs>>

\* The returned references, the wrapper and the iterator go out of scope:
\* the exclusive borrow of the map ends.
EndSession ==
    /\ status \in {"fixed", "multi", "iter"}
    /\ status' = "idle"
    /\ refs' = <<>>
    /\ used' = 0
    /\ buffer' = <<>>
    /\ keys' = <<>>
    /\ keylist' = <<>>
    /\ last' = [op |-> "end", args |-> <<>>, out |-> Unit]
    /\ UNCHANGED <<backend, map, mem>>

Next ==
    \/ GetPairMut
    \/ PairMut
    \/ GetTripleMut
    \/ TripleMut
    \/ MultiMut
    \/ IterMultiMut
    \/ GetMut
    \/ MutRef
    \/ IterNext
    \/ Write
    \/ EndSession

Spec == Init /\ [][Next]_vars

\* ------------------------------------------------------------------------
\* Vocabulary of the properties
\* ------------------------------------------------------------------------
\* The query k is equal to some stored key of the map.
Present(k) == \E s \in DOMAIN map : KeyEq(s, k)

\* The storage location of the value stored under k (k present).
LocOf(k) == map[CHOOSE s \in DOMAIN map : KeyEq(s, k)]

\* A session on a wrapper or an iterator, its abort included.
LedgerSession ==
    \/ status \in {"multi", "iter"}
    \/ status = "panicked" /\ last.op \in {"get_mut", "mut_ref", "next"}

\* The step is a claim on the wrapper (get_mut or mut_ref).
ClaimStep == status = "multi" /\ last'.op \in {"get_mut", "mut_ref"}

\* The locations of the references handed out so far in the session.
Claimed == {refs[j].ptr : j \in 1..Len(refs)}

\* ------------------------------------------------------------------------
\* Properties
\* ------------------------------------------------------------------------
\* C1: within one session on a wrapper or an iterator, no two references
\* handed back to the caller denote the same storage location.
C1_NoAliasedReferences ==
    LedgerSession =>
        \A i, j \in 1..Len(refs) : i # j => refs[i].ptr # refs[j].ptr

C1_Witness ==
    /\ status = "multi"
    /\ Len(refs) = 3
    /\ refs[2].key = "A"
    /\ last.op = "mut_ref"

\* C2: in every state of a session the locations recorded in the filled
\* prefix of the ledger, buffer[1..used], are pairwise distinct.
C2_LedgerDistinct ==
    LedgerSession =>
        \A i, j \in 1..used : i # j => buffer[i] # buffer[j]

C2_Witness ==
    /\ status = "iter"
    /\ used = 3
    /\ last.op = "next"

\* C3: for two distinct keys that are both present and stored at different
\* locations, get_pair_mut returns two references, the first to the value
\* stored under the first key and the second to that under the second.
C3_PairSuccess ==
    (/\ last.op = "get_pair_mut"
     /\ last.args[1] # last.args[2]
     /\ Present(last.args[1])
     /\ Present(last.args[2])
     /\ LocOf(last.args[1]) # LocOf(last.args[2]))
    => /\ last.out = Some(<<LocOf(last.args[1]), LocOf(last.args[2])>>)
       /\ Len(refs) = 2
       /\ \A i \in 1..2 : refs[i].ptr = LocOf(last.args[i])

C3_Witness ==
    /\ last.op = "get_pair_mut"
    /\ last.args = <<"b", "A">>
    /\ last.out.kind = "some"

\* C4: a write through one returned reference changes exactly the container
\* entry of the key the reference was obtained for: the write is visible
\* under that key, every other entry is unchanged, and so is the value
\* seen through every other returned reference.
C4_WriteFrame ==
    [][last'.op = "write" =>
          LET i == last'.args[1]
              v == last'.args[2]
              k == refs[i].key
          IN  /\ map' = map
              /\ refs' = refs
              /\ Present(k)
              /\ mem'[LocOf(k)] = v
              /\ \A s \in DOMAIN map : ~KeyEq(s, k) => mem'[map[s]] = mem[map[s]]
              /\ \A j \in 1..Len(refs) : j # i => mem'[refs[j].ptr] = mem[refs[j].ptr]
      ]_vars

C4_Witness ==
    /\ last.op = "write"
    /\ status = "fixed"
    /\ Len(refs) = 3
    /\ last.args = <<1, 1>>
    /\ mem[refs[1].ptr] = 1
    /\ mem[refs[2].ptr] = 0
    /\ mem[refs[3].ptr] = 0

\* C5: for every key k, present or absent, get_pair_mut(k, k) returns None
\* and never two references.
C5_PairSelfAlias ==
    (last.op = "get_pair_mut" /\ last.args[1] = last.args[2])
    => (last.out = None /\ refs = <<>>)

C5_Witness ==
    /\ last.op = "get_pair_mut"
    /\ last.args = <<"b", "b">>
    /\ Present("b")
    /\ last.out.kind = "none"

\* C6: when any key of a fixed-arity lookup is absent, whatever its
\* position and whatever the other keys, get_pair_mut and get_triple_mut
\* return None with no partial result, and pair_mut and triple_mut abort.
C6_AbsentKey ==
    (/\ last.op \in {"get_pair_mut", "get_triple_mut", "pair_mut", "triple_mut"}
     /\ \E i \in 1..Len(last.args) : ~Present(last.args[i]))
    => /\ refs = <<>>
       /\ last.out.refs = <<>>
       /\ last.op \in {"get_pair_mut", "get_triple_mut"} => last.out.kind = "none"
       /\ last.op \in {"pair_mut", "triple_mut"}
              => (last.out.kind = "panic" /\ status = "panicked")

C6_Witness ==
    /\ last.op = "get_triple_mut"
    /\ Present(last.args[1])
    /\ Present(last.args[2])
    /\ LocOf(last.args[1]) # LocOf(last.args[2])
    /\ ~Present(last.args[3])
    /\ last.out.kind = "none"

\* C7: get_triple_mut returns three references, to the values of its
\* three keys in that order, exactly when all three keys are present and
\* their locations are pairwise distinct; when any of the pairs (1,2),
\* (2,3), (1,3) resolves to one location it returns None.
C7_TripleExact ==
    last.op = "get_triple_mut" =>
        LET k == last.args
            allPresent == \A i \in 1..3 : Present(k[i])
            distinct == \A i, j \in 1..3 : i # j => LocOf(k[i]) # LocOf(k[j])
        IN  IF allPresent /\ distinct
            THEN last.out = Some(<<LocOf(k[1]), LocOf(k[2]), LocOf(k[3])>>)
            ELSE last.out = None

C7_Witness ==
    /\ last.op = "get_triple_mut"
    /\ last.args = <<"c", "b", "b">>
    /\ Present("b")
    /\ Present("c")
    /\ last.out.kind = "none"

\* C8: the hard and the soft fixed-arity entry points differ only in how
\* the negative outcome is delivered: pair_mut / triple_mut return
\* references exactly when get_pair_mut / get_triple_mut do, the same ones
\* in the same order, and abort exactly when the soft one returns None.
C8_HardSoft ==
    /\ last.op = "pair_mut" =>
           LET soft == get_pair_mut(backend, map, last.args[1], last.args[2])
           IN  /\ last.out.kind = "some" <=> soft.kind = "some"
               /\ last.out.kind = "panic" <=> soft.kind = "none"
               /\ last.out.refs = soft.refs
    /\ last.op = "triple_mut" =>
           LET soft == get_triple_mut(backend, map, last.args[1], last.args[2],
                                      last.args[3])
           IN  /\ last.out.kind = "some" <=> soft.kind = "some"
               /\ last.out.kind = "panic" <=> soft.kind = "none"
               /\ last.out.refs = soft.refs
    /\ last.op = "get_pair_mut" =>
           LET hard == pair_mut(backend, map, last.args[1], last.args[2])
           IN  /\ last.out.kind = "some" <=> hard.kind = "some"
               /\ last.out.kind = "none" <=> hard.kind = "panic"
               /\ last.out.refs = hard.refs
    /\ last.op = "get_triple_mut" =>
           LET hard == triple_mut(backend, map, last.args[1], last.args[2],
                                  last.args[3])
           IN  /\ last.out.kind = "some" <=> hard.kind = "some"
               /\ last.out.kind = "none" <=> hard.kind = "panic"
               /\ last.out.refs = hard.refs

C8_Witness ==
    /\ last.op = "triple_mut"
    /\ last.args = <<"a", "b", "A">>
    /\ \A i \in 1..3 : Present(last.args[i])
    /\ last.out.kind = "panic"
    /\ get_triple_mut(backend, map, "a", "b", "A").kind = "none"

\* C9: on a buffer of capacity N, each claim of a present key whose
\* location is not yet claimed succeeds while fewer than N references have
\* been handed out, and the abort for a depleted buffer happens on the
\* claim after the N-th successful one and on no earlier claim.
C9_CapacityAbort ==
    [][ClaimStep =>
          LET k == last'.args[1]
              N == Len(buffer)
          IN  /\ (Len(refs) < N /\ Present(k) /\ LocOf(k) \notin Claimed)
                     => (last'.out = Some(<<LocOf(k)>>) /\ Len(refs') = Len(refs) + 1)
              /\ Len(refs) = N => last'.out = Panic(MsgDepleted)
              /\ last'.out.msg = MsgDepleted => Len(refs) = N
      ]_vars

C9_Witness ==
    /\ status = "panicked"
    /\ last.op = "get_mut"
    /\ last.out = Panic(MsgDepleted)
    /\ Len(buffer) = 2
    /\ Len(refs) = 2
    /\ Present(last.args[1])
    /\ LocOf(last.args[1]) \notin Claimed

\* C10: a claim (get_mut or mut_ref) whose key resolves to a location
\* already claimed earlier in the session aborts and returns no reference,
\* however many other claims were made in between.
C10_SecondClaimAborts ==
    [][ClaimStep =>
          LET k == last'.args[1]
          IN  (Present(k) /\ LocOf(k) \in Claimed)
                  => /\ last'.out.kind = "panic"
                     /\ last'.out.refs = <<>>
                     /\ status' = "panicked"
                     /\ refs' = refs
      ]_vars

C10_Witness ==
    /\ status = "panicked"
    /\ last.op = "get_mut"
    /\ last.out = Panic(MsgAliased)
    /\ last.args = <<"A">>
    /\ Len(refs) = 2
    /\ refs[1].key = "a"
    /\ Len(buffer) = 3

\* ------------------------------------------------------------------------
\* Vocabulary of the iterator's properties
\* ------------------------------------------------------------------------
\* The step is a pull on the iterator.
PullStep == status = "iter" /\ last'.op = "next"

\* The first n keys of the iterator's key slice are present and resolve to
\* pairwise distinct locations.
DistinctPresent(n) ==
    /\ \A i \in 1..n : Present(keylist[i])
    /\ \A i, j \in 1..n : i # j => LocOf(keylist[i]) # LocOf(keylist[j])

\* The reference a successful pull or claim of key k hands out.
RefTo(k) == [ptr |-> LocOf(k), key |-> k]

\* C11: while capacity remains, get_mut on an absent key returns None
\* without aborting and mut_ref on it aborts; on a present key that is not
\* yet claimed mut_ref returns the same reference and makes the same ledger
\* update as get_mut.
C11_SoftHardClaim ==
    [][(ClaimStep /\ Len(refs) < Len(buffer)) =>
          LET k == last'.args[1]
              g == get_mut(backend, Wrapper, k)
          IN  /\ (~Present(k) /\ last'.op = "get_mut")
                     => /\ last'.out = None
                        /\ status' = "multi"
                        /\ UNCHANGED <<used, buffer, refs>>
              /\ (~Present(k) /\ last'.op = "mut_ref")
                     => /\ last'.out.kind = "panic"
                        /\ status' = "panicked"
                        /\ refs' = refs
              /\ (Present(k) /\ LocOf(k) \notin Claimed /\ last'.op = "mut_ref")
                     => /\ last'.out = Some(<<LocOf(k)>>)
                        /\ last'.out = g.out
                        /\ used' = g.self.used
                        /\ buffer' = g.self.buffer
                        /\ refs' = Append(refs, RefTo(k))
      ]_vars

C11_Witness ==
    /\ status = "panicked"
    /\ last.op = "mut_ref"
    /\ last.out = Panic(MsgNoKey)
    /\ ~Present(last.args[1])
    /\ Len(refs) = 1
    /\ Len(buffer) = 3

\* C12: over n pairwise distinct present keys with capacity >= n, the i-th
\* pull yields the reference to the value of the i-th key, and the pull
\* after the n-th returns None without aborting, also when the capacity is
\* exactly n.
C12_IterInOrder ==
    [][(/\ PullStep
        /\ Len(buffer) >= Len(keylist)
        /\ DistinctPresent(Len(keylist))) =>
          LET i == Len(refs) + 1
          IN  IF i <= Len(keylist)
              THEN /\ last'.out = Some(<<LocOf(keylist[i])>>)
                   /\ refs' = Append(refs, RefTo(keylist[i]))
                   /\ status' = "iter"
              ELSE /\ last'.out = None
                   /\ refs' = refs
                   /\ status' = "iter"
      ]_vars

C12_Witness ==
    /\ status = "iter"
    /\ last.op = "next"
    /\ last.out = None
    /\ Len(keylist) = 3
    /\ Len(buffer) = 3
    /\ DistinctPresent(3)
    /\ refs = [i \in 1..3 |-> RefTo(keylist[i])]

\* C13: over n keys with capacity c < n, the first c keys present and
\* distinct, the first c pulls yield the first c keys in order and the
\* next pull returns None without aborting, while the keys at positions
\* c+1..n stay unconsumed: the iterator neither advances past them nor
\* looks them up.
C13_IterTruncates ==
    [][(/\ PullStep
        /\ Len(buffer) < Len(keylist)
        /\ DistinctPresent(Len(buffer))) =>
          LET i == Len(refs) + 1
              c == Len(buffer)
          IN  IF i <= c
              THEN /\ last'.out = Some(<<LocOf(keylist[i])>>)
                   /\ refs' = Append(refs, RefTo(keylist[i]))
                   /\ keys' = SubSeq(keylist, i + 1, Len(keylist))
                   /\ status' = "iter"
              ELSE /\ last'.out = None
                   /\ refs' = refs
                   /\ status' = "iter"
                   /\ keys' = SubSeq(keylist, c + 1, Len(keylist))
      ]_vars

C13_Witness ==
    /\ status = "iter"
    /\ last.op = "next"
    /\ last.out = None
    /\ Len(buffer) = 2
    /\ Len(keylist) = 3
    /\ Len(refs) = 2
    /\ keys = <<keylist[3]>>
    /\ ~Present(keylist[3])

\* C14: when the pulls reach a key that resolves to a location already
\* yielded, the pull aborts: the duplicate is neither yielded nor skipped.
C14_IterDuplicate ==
    [][(/\ PullStep
        /\ keys # <<>>
        /\ Present(Head(keys))
        /\ LocOf(Head(keys)) \in Claimed) =>
          IF Len(refs) < Len(buffer)
          THEN /\ last'.out.kind = "panic"
               /\ status' = "panicked"
               /\ refs' = refs
          ELSE /\ last'.out = None
               /\ refs' = refs
               /\ keys' = keys
      ]_vars

C14_Witness ==
    /\ status = "panicked"
    /\ last.op = "next"
    /\ last.out = Panic(MsgAliased)
    /\ keylist = <<"a", "b", "A">>
    /\ Len(refs) = 2
    /\ Len(buffer) = 3

\* C15: when the pulls reach a key absent from the container, the pull
\* aborts: the key is not skipped to yield a later one and is not reported
\* as the end of the sequence.
C15_IterAbsent ==
    [][(/\ PullStep
        /\ keys # <<>>
        /\ ~Present(Head(keys))
        /\ Len(refs) < Len(buffer)) =>
          /\ last'.out = Panic(MsgNoKey)
          /\ status' = "panicked"
          /\ refs' = refs
      ]_vars

C15_Witness ==
    /\ status = "panicked"
    /\ last.op = "next"
    /\ last.out = Panic(MsgNoKey)
    /\ Len(keylist) = 3
    /\ Len(refs) = 1
    /\ Len(keys) = 1
    /\ Len(buffer) = 3

\* C16 as stated: whenever the ledger is at capacity and a further
\* reference is requested (a claim on the wrapper, or a pull while keys
\* remain), the operation aborts.
C16_FullLedgerAlwaysAborts ==
    [][((ClaimStep \/ (PullStep /\ keys # <<>>)) /\ used = Len(buffer))
          => last'.out.kind = "panic"
      ]_vars

\* C16, amended: on a full ledger get_mut and mut_ref always abort, never
\* returning a recoverable or empty result; the iterator's next does not
\* abort on a full ledger but returns None, leaving the remaining keys
\* unconsumed.
C16_FullLedger ==
    [][/\ (ClaimStep /\ used = Len(buffer))
              => (last'.out = Panic(MsgDepleted) /\ status' = "panicked")
       /\ (PullStep /\ used = Len(buffer))
              => (last'.out = None /\ status' = "iter" /\ keys' = keys)
      ]_vars

C16_Witness ==
    /\ status = "iter"
    /\ last.op = "next"
    /\ last.out = None
    /\ used = Len(buffer)
    /\ Len(buffer) = 1
    /\ keys # <<>>
    /\ Present(Head(keys))
    /\ LocOf(Head(keys)) \notin Claimed

\* ------------------------------------------------------------------------
\* The same contents and session held by the other backend
\* ------------------------------------------------------------------------
Other == IF backend = "hash" THEN "btree" ELSE "hash"

\* The other backend's map with the same keys.
OtherMap == [s \in DOMAIN map |-> Slots(Other)[s]]

\* The stored key whose value lives at p in map m.
KeyAt(m, p) == CHOOSE s \in DOMAIN m : m[s] = p

\* Where the other backend keeps the value that this one keeps at p.
Move(p) ==
    IF \E s \in DOMAIN map : map[s] = p THEN OtherMap[KeyAt(map, p)] ELSE p

\* The other backend's wrapper after the same claims, on the same buffer.
OtherWrapper ==
    [used   |-> used,
     map    |-> OtherMap,
     buffer |-> [i \in 1..Len(buffer) |->
                    IF i <= used THEN Move(buffer[i]) ELSE buffer[i]]]

OtherIterator == [mut_wrapper |-> OtherWrapper, keys |-> keys]

\* What the caller observes of an outcome: its kind and the stored keys
\* the returned references lead to.
Observed(m, out) ==
    [kind |-> out.kind,
     keys |-> [i \in 1..Len(out.refs) |-> KeyAt(m, out.refs[i])]]

\* C17: the two backends are observationally identical: from the same
\* contents, the same operation with the same arguments and buffer gives
\* the same outcome (references to the same keys' values, the empty result
\* or an abort) on both, and leaves both sessions in corresponding states,
\* so that the outcomes agree at every step of every sequence.
C17_BackendsAgree ==
    [][LET a == last'.args
       IN  /\ (status = "idle" /\ last'.op = "get_pair_mut")
                  => Observed(map, last'.out)
                       = Observed(OtherMap, get_pair_mut(Other, OtherMap, a[1], a[2]))
           /\ (status = "idle" /\ last'.op = "pair_mut")
                  => Observed(map, last'.out)
                       = Observed(OtherMap, pair_mut(Other, OtherMap, a[1], a[2]))
           /\ (status = "idle" /\ last'.op = "get_triple_mut")
                  => Observed(map, last'.out)
                       = Observed(OtherMap,
                                  get_triple_mut(Other, OtherMap, a[1], a[2], a[3]))
           /\ (status = "idle" /\ last'.op = "triple_mut")
                  => Observed(map, last'.out)
                       = Observed(OtherMap,
                                  triple_mut(Other, OtherMap, a[1], a[2], a[3]))
           /\ (status = "idle" /\ last'.op = "multi_mut")
                  => OtherWrapper' = multi_mut(Other, OtherMap, buffer')
           /\ (status = "idle" /\ last'.op = "iter_multi_mut")
                  => OtherIterator' = iter_multi_mut(Other, OtherMap, keylist', buffer')
           /\ (status = "multi" /\ last'.op = "get_mut")
                  => LET r == get_mut(Other, OtherWrapper, a[1])
                     IN  /\ Observed(map, last'.out) = Observed(OtherMap, r.out)
                         /\ OtherWrapper' = r.self
           /\ (status = "multi" /\ last'.op = "mut_ref")
                  => LET r == mut_ref(Other, OtherWrapper, a[1])
                     IN  /\ Observed(map, last'.out) = Observed(OtherMap, r.out)
                         /\ OtherWrapper' = r.self
           /\ (status = "iter" /\ last'.op = "next")
                  => LET r == next(Other, OtherIterator)
                     IN  /\ Observed(map, last'.out) = Observed(OtherMap, r.out)
                         /\ OtherIterator' = r.self
      ]_vars

C17_Witness ==
    /\ backend = "btree"
    /\ status = "iter"
    /\ last.op = "next"
    /\ last.out.kind = "some"
    /\ Len(refs) = 2
    /\ Len(buffer) = 3
    /\ buffer[3] = 2
    /\ OtherWrapper.buffer # buffer

\* A pull made now would return None.
WouldEnd == next(backend, Iterator).out.kind = "none"

\* C19: Exhausted is terminal: once a pull has returned None, for consumed
\* keys or for reached capacity, every later pull in the session returns
\* None too; it yields no reference and does not abort.
C19_ExhaustedTerminal ==
    /\ []((status = "iter" /\ last.op = "next" /\ last.out.kind = "none")
              => /\ next(backend, Iterator).out = None
                 /\ next(backend, Iterator).self = Iterator)
    /\ [][(status = "iter" /\ WouldEnd)
              => /\ status' = "iter" => WouldEnd'
                 /\ last'.op = "next"
                        => (last'.out = None /\ status' = "iter" /\ refs' = refs)
         ]_vars

C19_Witness ==
    /\ status = "iter"
    /\ last.op = "next"
    /\ last.out = None
    /\ keys = <<>>
    /\ Len(keylist) = 2
    /\ Len(refs) = 2
    /\ Len(buffer) = 3
    /\ \E a \in Addr : mem[a] = 1

\* C20: get_mut checks the capacity before it looks the key up: on a full
\* ledger, a zero-capacity buffer included, get_mut and mut_ref abort for
\* every key, also for an absent key (which gets no empty result) and for
\* a key already claimed, and the ledger is left as it was.
C20_CapacityFirst ==
    [][(ClaimStep /\ Len(refs) = Len(buffer)) =>
          /\ last'.out = Panic(MsgDepleted)
          /\ status' = "panicked"
          /\ UNCHANGED <<used, buffer, refs, map>>
      ]_vars

C20_Witness ==
    /\ status = "panicked"
    /\ last.op = "get_mut"
    /\ last.out = Panic(MsgDepleted)
    /\ Len(buffer) = 0
    /\ ~Present(last.args[1])

\* C21: a claim that does not succeed (None for an absent key, an abort for
\* aliasing, for a depleted buffer or for mut_ref's absent key) leaves the
\* ledger's count and its recorded locations unchanged; after a claim of an
\* absent key the session goes on, and every present key not yet claimed
\* is still admitted while fewer references than the capacity are out.
C21_FailedClaimFrame ==
    [][(ClaimStep /\ last'.out.kind # "some") =>
          /\ used' = used
          /\ buffer' = buffer
          /\ refs' = refs
          /\ last'.out.kind = "none" =>
                 /\ status' = "multi"
                 /\ ~Present(last'.args[1])
                 /\ \A k \in Queries :
                        (Present(k) /\ LocOf(k) \notin Claimed
                                    /\ Len(refs) < Len(buffer))
                            => get_mut(backend, Wrapper', k).out = Some(<<LocOf(k)>>)
      ]_vars

C21_Witness ==
    /\ status = "multi"
    /\ last.op = "get_mut"
    /\ last.out = None
    /\ Len(buffer) = 2
    /\ used = 1
    /\ \E k \in Queries : Present(k) /\ LocOf(k) \notin Claimed

\* The operations of the layer.
LayerOps ==
    {"get_pair_mut", "pair_mut", "get_triple_mut", "triple_mut", "multi_mut",
     "get_mut", "mut_ref", "iter_multi_mut", "next"}

\* C22: no operation of the layer changes the container: the key set, the
\* location of every entry and every stored value are the same after the
\* operation as before, whether it returns references, returns None or
\* aborts.
C22_ContainerUnchanged ==
    [][last'.op \in LayerOps =>
          /\ DOMAIN map' = DOMAIN map
          /\ map' = map
          /\ \A s \in DOMAIN map : mem'[map'[s]] = mem[map[s]]
          /\ mem' = mem
      ]_vars

C22_Witness ==
    /\ status = "panicked"
    /\ last.op = "next"
    /\ last.out = Panic(MsgAliased)
    /\ DOMAIN map = StoredKeys
    /\ \E s \in DOMAIN map : mem[map[s]] = 1
    /\ Len(refs) = 2

\* mut_ref of each key of ks in turn, starting from the wrapper w: whether
\* some step aborts, and otherwise the references returned, in order.
RECURSIVE ClaimAll(_, _, _)
ClaimAll(b, w, ks) ==
    IF ks = <<>>
    THEN [aborts |-> FALSE, refs |-> <<>>]
    ELSE LET r == mut_ref(b, w, Head(ks))
         IN  IF r.out.kind = "panic"
             THEN [aborts |-> TRUE, refs |-> <<>>]
             ELSE LET rest == ClaimAll(b, r.self, Tail(ks))
                  IN  [aborts |-> rest.aborts,
                       refs   |-> IF rest.aborts THEN <<>>
                                  ELSE r.out.refs \o rest.refs]

\* C23: pair_mut(k1, k2) (triple_mut(k1, k2, k3)) aborts exactly when
\* mut_ref(k1), mut_ref(k2) (and mut_ref(k3)) on a fresh wrapper over a
\* buffer of capacity 2 (3) aborts at some step, and otherwise both return
\* references to the same locations in the same order.
C23_MultiGeneralizesHard ==
    last.op \in {"pair_mut", "triple_mut"} =>
        \A buf \in Buffers :
            Len(buf) = Len(last.args) =>
                LET s == ClaimAll(backend, multi_mut(backend, map, buf), last.args)
                IN  /\ (last.out.kind = "panic") <=> s.aborts
                    /\ ~s.aborts => last.out = Some(s.refs)

C23_Witness ==
    /\ last.op = "pair_mut"
    /\ last.args = <<"a", "A">>
    /\ Present("a")
    /\ last.out = Panic(MsgOverlap)
    /\ \A buf \in Buffers :
           Len(buf) = 2 =>
               ClaimAll(backend, multi_mut(backend, map, buf), last.args).aborts

\* C24: in every state of a session on a wrapper or an iterator,
\* 0 <= used <= the buffer's capacity, used is the number of references
\* handed out so far in the session, and buffer[1..used] is the sequence of
\* their locations in the order they were handed out.
C24_LedgerRecordsIssued ==
    LedgerSession =>
        /\ 0 <= used
        /\ used <= Len(buffer)
        /\ used = Len(refs)
        /\ \A i \in 1..used : buffer[i] = refs[i].ptr

C24_Witness ==
    /\ status = "iter"
    /\ last.op = "next"
    /\ used = 2
    /\ Len(buffer) = 3
    /\ refs[1].ptr > refs[2].ptr
    /\ buffer[3] = refs[1].ptr

\* The location p is recorded in the filled prefix of the ledger.
Recorded(p) == \E i \in 1..used : buffer[i] = p

\* C25: the ledger is append-only for the whole session: across every step
\* of the session, the caller's writes included, used does not decrease
\* and no recorded entry is overwritten or removed; a claim of a key whose
\* location is recorded aborts, and so does a pull that takes such a key
\* from the key list.
C25_LedgerAppendOnly ==
    [][(status \in {"multi", "iter"} /\ status' # "idle") =>
          /\ used' >= used
          /\ Len(buffer') = Len(buffer)
          /\ \A i \in 1..used : buffer'[i] = buffer[i]
          /\ \A q \in Addr : Recorded(q) => Recorded(q)'
          /\ (/\ ClaimStep
              /\ Present(last'.args[1])
              /\ Recorded(LocOf(last'.args[1])))
                 => (last'.out.kind = "panic" /\ status' = "panicked")
          /\ (/\ PullStep
              /\ keys' # keys
              /\ Present(Head(keys))
              /\ Recorded(LocOf(Head(keys))))
                 => (last'.out.kind = "panic" /\ status' = "panicked")
      ]_vars

C25_Witness ==
    /\ status = "panicked"
    /\ last.op = "mut_ref"
    /\ last.out = Panic(MsgAliased)
    /\ Len(buffer) = 3
    /\ used = 2
    /\ buffer[1] = LocOf(last.args[1])
    /\ mem[buffer[1]] = 1

\* The buffers that agree with the session's buffer on the filled prefix
\* and hold anything beyond it.
Twins ==
    {[i \in 1..Len(buffer) |-> IF i <= used THEN buffer[i] ELSE rest[i]] :
        rest \in [(used + 1)..Len(buffer) -> {Null} \cup Addr]}

\* The wrapper after the step, had its buffer held alt beyond the filled
\* prefix before the step: the step's ledger, and alt where nothing was
\* recorded.
TwinAfter(alt) ==
    [used   |-> used',
     map    |-> map',
     buffer |-> [i \in 1..Len(buffer') |->
                    IF i <= used' THEN buffer'[i] ELSE alt[i]]]

\* C26: the outcome of every get_mut, mut_ref and next is independent of
\* the buffer's contents beyond the filled prefix: the same operation on a
\* session that differs only there gives the same outcome and leaves the
\* same ledger, so two sessions that differ only in the initial contents
\* of the buffer agree step by step, and a stale entry equal to a value's
\* location causes no aliasing abort.
C26_BufferContentsIrrelevant ==
    [][/\ ClaimStep =>
              \A alt \in Twins :
                  LET w == [Wrapper EXCEPT !.buffer = alt]
                  IN  IF last'.op = "get_mut"
                      THEN get_mut(backend, w, last'.args[1])
                               = [out |-> last'.out, self |-> TwinAfter(alt)]
                      ELSE mut_ref(backend, w, last'.args[1])
                               = [out |-> last'.out, self |-> TwinAfter(alt)]
       /\ PullStep =>
              \A alt \in Twins :
                  LET it == [Iterator EXCEPT !.mut_wrapper.buffer = alt]
                  IN  next(backend, it)
                          = [out  |-> last'.out,
                             self |-> [mut_wrapper |-> TwinAfter(alt),
                                       keys |-> keys']]
      ]_vars

C26_Witness ==
    /\ status = "multi"
    /\ last.op = "get_mut"
    /\ last.out.kind = "some"
    /\ Len(buffer) = 3
    /\ used = 2
    /\ buffer[3] = last.out.refs[1]
    /\ buffer[1] # buffer[3]

Min(a, b) == IF a < b THEN a ELSE b

\* C27: a sequential accessor yields at most min(len(keys), capacity)
\* references; every pull made before the end or an abort yields one, and
\* the pull after min(len(keys), capacity) references returns None; each
\* pull takes at most one key, from the front of the remaining key list,
\* so the positions are visited in increasing order.
C27_IterBounded ==
    /\ [](status = "iter" =>
              /\ Len(refs) <= Min(Len(keylist), Len(buffer))
              /\ keys = SubSeq(keylist, Len(refs) + 1, Len(keylist)))
    /\ [][PullStep =>
              /\ keys' = keys \/ (keys # <<>> /\ keys' = Tail(keys))
              /\ (last'.out.kind = "some") <=> (Len(refs') = Len(refs) + 1)
              /\ (last'.out.kind # "some") => refs' = refs
              /\ (last'.out.kind = "none") => keys' = keys
              /\ (last'.out.kind = "some")
                     => last'.out.refs = <<LocOf(keylist[Len(refs) + 1])>>
              /\ Len(refs) = Min(Len(keylist), Len(buffer))
                     => (last'.out = None /\ status' = "iter")
         ]_vars

C27_Witness ==
    /\ status = "iter"
    /\ last.op = "next"
    /\ last.out = None
    /\ Len(keylist) = 3
    /\ Len(buffer) = 1
    /\ Len(refs) = 1
    /\ Len(keys) = 2

\* The permutations of three argument positions.
Perms3 == {p \in [1..3 -> 1..3] : \A i, j \in 1..3 : i # j => p[i] # p[j]}

\* C28: get_pair_mut(a, b) returns references exactly when
\* get_pair_mut(b, a) does, with the two references swapped, and
\* get_triple_mut returns references for one ordering of its keys exactly
\* when it does for every permutation, the references permuted likewise.
C28_FixedSymmetric ==
    /\ last.op = "get_pair_mut" =>
           LET o == get_pair_mut(backend, map, last.args[2], last.args[1])
           IN  /\ o.kind = last.out.kind
               /\ last.out.kind = "some"
                      => o.refs = <<last.out.refs[2], last.out.refs[1]>>
    /\ last.op = "get_triple_mut" =>
           \A p \in Perms3 :
               LET o == get_triple_mut(backend, map, last.args[p[1]],
                                       last.args[p[2]], last.args[p[3]])
               IN  /\ o.kind = last.out.kind
                   /\ o.refs = [i \in 1..Len(last.out.refs) |-> last.out.refs[p[i]]]

C28_Witness ==
    /\ last.op = "get_triple_mut"
    /\ last.args = <<"c", "A", "b">>
    /\ last.out.kind = "some"
    /\ last.out.refs = <<LocOf("c"), LocOf("a"), LocOf("b")>>

====
